---- MODULE Spec2Model ----
(***************************************************************************)
(* Model of layout-corrector-tg-bot (src/src/main.rs): the layout          *)
(* remapper fix_layout, the mismatch detector get_russians_ratio and the   *)
(* polling loop main / get_and_process_updates over Telegram's getUpdates  *)
(* feed.                                                                   *)
(*                                                                         *)
(* Representation.  A Rust char is its Unicode code point, a String the    *)
(* sequence of its chars.  An Option<T> is a sequence of length at most    *)
(* one: None is <<>>, Some(x) is <<x>>.  An f32 ratio is the exact         *)
(* fraction <<numerator, denominator>> with a positive denominator; the    *)
(* counts are small integers, which f32 holds exactly, and IEEE division   *)
(* is correctly rounded and monotonic, so comparing the fractions compares *)
(* the floats (2.0/5.0 is the very float the literal 0.4 denotes).         *)
(***************************************************************************)
EXTENDS Integers, Sequences, FiniteSets, TLC

(***************************************************************************)
(* Bounds of the model.                                                    *)
(***************************************************************************)
\* Number of updates the feed delivers in one run.
MaxFeed == 3
\* Longest string the detector is applied to exhaustively.
MaxLen == 4

None == <<>>
Some(x) == <<x>>
IsSome(o) == Len(o) = 1
Unwrap(o) == o[1]

Range(s) == { s[i] : i \in 1..Len(s) }
Last(s) == s[Len(s)]

(***************************************************************************)
(* Characters.                                                             *)
(***************************************************************************)
\* fix_layout: "qwertyuiop[]asdfghjkl;'zxcvbnm,./?`&"
latin_chars ==
    << 113, 119, 101, 114, 116, 121, 117, 105, 111, 112, 91, 93,
       97, 115, 100, 102, 103, 104, 106, 107, 108, 59, 39, 122,
       120, 99, 118, 98, 110, 109, 44, 46, 47, 63, 96, 38 >>

\* The Cyrillic table without its last character "?".
cyrillic_chars_short ==
    << 1081, 1094, 1091, 1082, 1077, 1085, 1075, 1096, 1097, 1079, 1093, 1098,
       1092, 1099, 1074, 1072, 1087, 1088, 1086, 1083, 1076, 1078, 1101, 1103,
       1095, 1089, 1084, 1080, 1090, 1100, 1073, 1102, 46, 44, 1105 >>

\* fix_layout: the 32 letters of the Cyrillic rows, then ".,", the letter
\* U+0451 (io) and "?".
cyrillic_chars ==
    << 1081, 1094, 1091, 1082, 1077, 1085, 1075, 1096, 1097, 1079, 1093, 1098,
       1092, 1099, 1074, 1072, 1087, 1088, 1086, 1083, 1076, 1078, 1101, 1103,
       1095, 1089, 1084, 1080, 1090, 1100, 1073, 1102, 46, 44, 1105, 63 >>

\* get_russians_ratio: the string literal of the short-circuit test, the 32
\* letters U+0430..U+044F (U+0451 is not among them).
russian_letters ==
    << 1081, 1094, 1091, 1082, 1077, 1085, 1075, 1096, 1097, 1079, 1093, 1098,
       1092, 1099, 1074, 1072, 1087, 1088, 1086, 1083, 1076, 1078, 1101, 1103,
       1095, 1089, 1084, 1080, 1090, 1100, 1073, 1102 >>

\* get_russians_ratio: "!\"#$%&\'()*+,-./:;<=>?@[\\]^_`{|}~"
punctuation ==
    << 33, 34, 35, 36, 37, 38, 39, 40, 41, 42, 43, 44,
       45, 46, 47, 58, 59, 60, 61, 62, 63, 64, 91, 92,
       93, 94, 95, 96, 123, 124, 125, 126 >>

\* char::is_whitespace, the separator of str::split_whitespace: the code
\* points with the Unicode White_Space property.
White_Space ==
    (9..13) \cup {32, 133, 160, 5760} \cup (8192..8202)
        \cup {8232, 8233, 8239, 8287, 12288}

\* char lowercasing of str::to_lowercase on the Basic Latin and Cyrillic
\* blocks: A-Z, U+0400..U+040F and U+0410..U+042F have a one-char lowercase.
char_to_lowercase(c) ==
    IF c \in 65..90 THEN c + 32
    ELSE IF c \in 1040..1071 THEN c + 32
    ELSE IF c \in 1024..1039 THEN c + 80
    ELSE c

to_lowercase(s) == [i \in 1..Len(s) |-> char_to_lowercase(s[i])]

\* i64::to_string: the decimal digits, with a leading '-' below zero.
RECURSIVE digits(_)
digits(n) ==
    IF n < 10 THEN << 48 + n >> ELSE Append(digits(n \div 10), 48 + (n % 10))

to_string(n) == IF n < 0 THEN << 45 >> \o digits(0 - n) ELSE digits(n)

(***************************************************************************)
(* fix_layout (main.rs 11-21).                                             *)
(***************************************************************************)
\* The assertion of line 14.
fix_layout_assert == Len(latin_chars) = Len(cyrillic_chars)

\* HashMap::from_iter(latin.zip(cyrillic)): zip stops at the shorter
\* sequence, and a later pair replaces an earlier one with the same key.
zip_len == IF Len(latin_chars) <= Len(cyrillic_chars)
           THEN Len(latin_chars) ELSE Len(cyrillic_chars)

chars_map_keys == { latin_chars[i] : i \in 1..zip_len }

last_pair(x) ==
    CHOOSE i \in 1..zip_len :
        /\ latin_chars[i] = x
        /\ \A j \in 1..zip_len : latin_chars[j] = x => j <= i

\* let chars_map: HashMap<char, char>
chars_map == [x \in chars_map_keys |-> cyrillic_chars[last_pair(x)]]

\* The lookup in a map zipped the other way round, from the Cyrillic table
\* to the Latin one.
map_char_inverse(x) ==
    IF \E i \in 1..zip_len : cyrillic_chars[i] = x
    THEN latin_chars[CHOOSE i \in 1..zip_len : cyrillic_chars[i] = x]
    ELSE x

\* The lookup in a map that holds the pairs of both directions.
map_char_bidirectional(x) ==
    IF x \in DOMAIN chars_map THEN chars_map[x] ELSE map_char_inverse(x)

\* chars_map.get(&x).map(|y| *y).unwrap_or(x)
map_char(x) == IF x \in DOMAIN chars_map THEN chars_map[x] ELSE x

fix_layout(src) == [i \in 1..Len(src) |-> map_char(src[i])]

(***************************************************************************)
(* get_russians_ratio (main.rs 28-64).                                     *)
(***************************************************************************)
\* The value returned by the short-circuit, -1.0.
Sentinel == << 0 - 1, 1 >>
\* The value of the literal 0.0.
Zero == << 0, 1 >>
\* let threshold = 0.4 (main.rs 153).
threshold == << 2, 5 >>

\* a > b on the floats the fractions stand for.
RatioGt(a, b) == a[1] * b[2] > b[1] * a[2]
RatioEq(a, b) == a[1] * b[2] = b[1] * a[2]

\* src.find(|x| "...".contains(x)).is_some()
russian_letter_set == Range(russian_letters)

has_russian_letter(src) ==
    \E i \in 1..Len(src) : src[i] \in russian_letter_set

\* str::split_whitespace: the maximal runs of non-whitespace chars, in
\* order; never an empty token.
RECURSIVE split_from(_, _, _)
split_from(src, i, cur) ==
    IF i > Len(src)
    THEN IF cur = <<>> THEN <<>> ELSE << cur >>
    ELSE IF src[i] \in White_Space
         THEN IF cur = <<>>
              THEN split_from(src, i + 1, <<>>)
              ELSE << cur >> \o split_from(src, i + 1, <<>>)
         ELSE split_from(src, i + 1, Append(cur, src[i]))

\* Mutant of split_whitespace: str::split(' '), which cuts at every single
\* space and keeps the empty pieces.
RECURSIVE split_space_from(_, _, _)
split_space_from(s, i, cur) ==
    IF i > Len(s)
    THEN << cur >>
    ELSE IF s[i] = 32
         THEN << cur >> \o split_space_from(s, i + 1, <<>>)
         ELSE split_space_from(s, i + 1, Append(cur, s[i]))

split_on_space(src) == split_space_from(src, 1, <<>>)

split_whitespace(src) == split_from(src, 1, <<>>)

punctuation_set == Range(punctuation)

IsNotPunctuation(c) == c \notin punctuation_set

\* String::from_iter(fix_layout(s).chars().filter(|c| !punctuation.contains(*c)))
\* The two steps in the other order: the punctuation is taken out of the
\* token as typed, and the rest is remapped.
normalize_strip_first(s) == fix_layout(SelectSeq(s, IsNotPunctuation))

normalize(s) == SelectSeq(fix_layout(s), IsNotPunctuation)

\* The closure of the map (lines 38-46): WordLanguage::Russian or not.
is_russian(s, words) == normalize(s) \in words

\* The fold with the matched tokens collected into a set of strings, so that
\* a token occurring twice is counted once.
get_russians_ratio_dedup(src, words) ==
    IF has_russian_letter(src)
    THEN Sentinel
    ELSE LET tokens == split_whitespace(src)
             total_count == Len(tokens)
             russian_count ==
                 Cardinality({ t \in Range(tokens) : is_russian(t, words) })
         IN  IF total_count # 0
             THEN << russian_count, total_count >>
             ELSE Zero

get_russians_ratio(src, words) ==
    IF has_russian_letter(src)
    THEN Sentinel
    ELSE LET tokens == split_whitespace(src)
             total_count == Len(tokens)
             russian_count ==
                 Cardinality({ i \in 1..Len(tokens) : is_russian(tokens[i], words) })
         IN  IF total_count # 0
             THEN << russian_count, total_count >>
             ELSE Zero

(***************************************************************************)
(* build_words (main.rs 169-174).                                          *)
(***************************************************************************)
\* str::split("\n"): the pieces between the newlines, the empty ones kept.
RECURSIVE split_newline_from(_, _, _)
split_newline_from(buf, i, cur) ==
    IF i > Len(buf)
    THEN << cur >>
    ELSE IF buf[i] = 10
         THEN << cur >> \o split_newline_from(buf, i + 1, <<>>)
         ELSE split_newline_from(buf, i + 1, Append(cur, buf[i]))

build_words(buf) == Range(split_newline_from(buf, 1, <<>>))

(***************************************************************************)
(* The wire format (main.rs 66-86) and the feed.                           *)
(*                                                                         *)
(* A JSON update as getUpdates sends it: update_id, and optionally a       *)
(* message whose chat id, message_id and text may each be there or not.    *)
(* The structs Update, Message and Chat make message and text optional     *)
(* (Option) and chat, chat.id and message_id required.                     *)
(***************************************************************************)
json_update(id, message) == [update_id |-> id, message |-> message]
json_message(chat_id, message_id, text) ==
    [chat_id |-> chat_id, message_id |-> message_id, text |-> text]

\* "Z z": typed in the Latin layout, with a capital; lowercased and
\* remapped it is two words of the vocabulary.
TextWrongLayout == << 90, 32, 122 >>
\* "z z q q q": two of five tokens are words of the vocabulary.
TextTwoOfFive == << 122, 32, 122, 32, 113, 32, 113, 32, 113 >>
\* A message typed in Cyrillic, then "z".
TextNative == << 1103, 32, 122 >>

FeedTexts == { TextWrongLayout, TextTwoOfFive, TextNative }

\* "hqllo world"
TextHqlloWorld == << 104, 113, 108, 108, 111, 32, 119, 111, 114, 108, 100 >>
\* ". /": a token that is a punctuation key of the Latin layout and remaps
\* to a letter, and a token that remaps to a punctuation mark.
TextDotSlash == << 46, 32, 47 >>
\* "!?": a mark outside the layout and a key that remaps to ','.
TextMarks == << 33, 63 >>

\* Longer texts the detector and the remapper are applied to: those of the
\* feed, the three above, and every key of the Latin layout in a row.
SampleTexts ==
    FeedTexts \cup { TextHqlloWorld, TextDotSlash, TextMarks, latin_chars }

\* The updates the feed may deliver under sequence id `id`: one without a
\* message (an edited message, a channel post), messages without and with
\* text, and messages that lack the chat id or the message_id.
JsonUpdates(id) ==
    LET chat == Some(0 - (id + 6))
        mid == Some(id + 20)
    IN  { json_update(id, None),
          json_update(id, Some(json_message(chat, mid, None))) }
        \cup { json_update(id, Some(json_message(chat, mid, Some(t)))) : t \in FeedTexts }
        \cup { json_update(id, Some(json_message(None, mid, Some(TextWrongLayout)))),
               json_update(id, Some(json_message(chat, None, Some(TextWrongLayout)))) }

\* serde_json::from_value::<Vec<Update>>: an error when the value is no
\* array or when a message lacks a required field.
deserializable(result) ==
    /\ IsSome(result)
    /\ \A i \in 1..Len(Unwrap(result)) :
          LET m == Unwrap(result)[i].message
          IN  IsSome(m) => IsSome(Unwrap(m).chat_id) /\ IsSome(Unwrap(m).message_id)

deserialize_update(j) ==
    [update_id |-> j.update_id,
     message |->
        IF IsSome(j.message)
        THEN Some([chat |-> [id |-> Unwrap(Unwrap(j.message).chat_id)],
                   message_id |-> Unwrap(Unwrap(j.message).message_id),
                   text |-> Unwrap(j.message).text])
        ELSE None]

deserialize(result) ==
    [i \in 1..Len(Unwrap(result)) |-> deserialize_update(Unwrap(result)[i])]

\* The word-list files: the word U+044F (ya); the same with a final newline;
\* the two words U+0451 (io) and U+044F; and "hello\nworld".
WordFiles ==
    { << 1103 >>, << 1103, 10 >>, << 1105, 10, 1103 >>,
      << 104, 101, 108, 108, 111, 10, 119, 111, 114, 108, 100 >> }
\* The word list of the runs of the loop: one word and a final newline.
LoopWordFile == << 1103, 10 >>

VARIABLES
    words,           \* main: the vocabulary, built once
    last_confirmed,  \* main: the cursor
    pc,              \* where the loop stands: sleep, fetched, process, panicked
    response,        \* what the fetch of this tick returned
    updates,         \* get_and_process_updates: the deserialized batch
    idx,             \* position of the for loop in updates
    feed,            \* the server: every update so far, ascending update_id
    offset,          \* Option: the offset of the latest getUpdates request
    prev_offset,     \* Option: the offset of the request before it
    tick_start,      \* the cursor when the latest tick started
    result,          \* how the latest finished tick returned
    processed,       \* update_ids the for loop has handled, in order
    dispatched,      \* the calls of reply_to_message, in order
    last_reply,      \* how the latest call of reply_to_message ended
    src,             \* detector run: the input string
    tpc,             \* detector run: start, scored, decided
    ratio,           \* detector run: Option of get_russians_ratio's value
    reply,           \* detector run: Option of the reply the loop would send
    fixed,           \* remapper run: Option of fix_layout(src)
    twice            \* remapper run: Option of fix_layout(fix_layout(src))

vars == << words, last_confirmed, pc, response, updates, idx, feed, offset,
           prev_offset, tick_start, result, processed, dispatched, last_reply,
           src, tpc, ratio, reply, fixed, twice >>

loop_vars == << last_confirmed, pc, response, updates, idx, feed, offset,
                prev_offset, tick_start, result, processed, dispatched, last_reply >>

text_vars == << src, tpc, ratio, reply, fixed, twice >>

(***************************************************************************)
(* The server side of getUpdates and sendMessage.                          *)
(***************************************************************************)
\* The updates with update_id at or above the requested offset, ascending.
pending(off) == SelectSeq(feed, LAMBDA j : j.update_id >= off)

no_response == [transport_ok |-> FALSE, ok |-> None, result |-> None]

\* What get_available_updates may come back with: a transport error (send
\* or json failed), or a JSON value whose "ok" is missing, false or true,
\* the last with or without a usable "result".
Responses(off) ==
    { no_response,
      [transport_ok |-> TRUE, ok |-> None, result |-> None],
      [transport_ok |-> TRUE, ok |-> Some(FALSE), result |-> None],
      [transport_ok |-> TRUE, ok |-> Some(TRUE), result |-> None],
      [transport_ok |-> TRUE, ok |-> Some(TRUE), result |-> Some(pending(off))] }

\* How a sendMessage request may end: answered with success, answered with
\* an error status (send still returns Ok), or no answer (send returns Err).
ReplyOutcomes == { "sent", "rejected", "transport_error" }

(***************************************************************************)
(* The per-update step of get_and_process_updates (main.rs 149-164).       *)
(***************************************************************************)
\* u.message.as_ref().map(|x| x.message_id)
update_message_id(u) ==
    IF IsSome(u.message) THEN Some(Unwrap(u.message).message_id) ELSE None

\* u.message.as_ref().map(|x| x.chat.id)
update_chat_id(u) ==
    IF IsSome(u.message) THEN Some(Unwrap(u.message).chat.id) ELSE None

\* u.message.and_then(|x| x.text.map(|y| y.to_lowercase()))
update_text(u) ==
    IF IsSome(u.message) /\ IsSome(Unwrap(u.message).text)
    THEN Some(to_lowercase(Unwrap(Unwrap(u.message).text)))
    ELSE None

\* text.as_ref().map(|x| get_russians_ratio(&*x, &words))
update_ratio(u, vocabulary) ==
    IF IsSome(update_text(u))
    THEN Some(get_russians_ratio(Unwrap(update_text(u)), vocabulary))
    ELSE None

\* Mutant of exceeds_threshold: >= in place of >.
exceeds_threshold_ge(r) ==
    ~RatioGt(threshold, IF IsSome(r) THEN Unwrap(r) ELSE Sentinel)

\* Mutant of exceeds_threshold: unwrap_or(1.0) in place of unwrap_or(-1.0).
exceeds_threshold_default_one(r) ==
    RatioGt(IF IsSome(r) THEN Unwrap(r) ELSE << 1, 1 >>, threshold)

\* ratio.unwrap_or(-1.0) > threshold
exceeds_threshold(r) ==
    RatioGt(IF IsSome(r) THEN Unwrap(r) ELSE Sentinel, threshold)

\* The arguments of reply_to_message (lines 155-163).
reply_args(u) ==
    [update_id |-> u.update_id,
     chat_id |-> to_string(Unwrap(update_chat_id(u))),
     message_id |-> to_string(Unwrap(update_message_id(u))),
     text |-> fix_layout(to_lowercase(Unwrap(update_text(u))))]

\* Whether the step panics before it reaches reply_to_message: the
\* assertion of fix_layout (called on every token and on the reply text),
\* or an unwrap of a None text, message_id or chat_id.
ratio_panics(u) ==
    /\ IsSome(update_text(u))
    /\ ~has_russian_letter(Unwrap(update_text(u)))
    /\ split_whitespace(Unwrap(update_text(u))) # <<>>
    /\ ~fix_layout_assert

reply_panics(u) ==
    \/ ~IsSome(update_text(u))
    \/ ~fix_layout_assert
    \/ ~IsSome(update_message_id(u))
    \/ ~IsSome(update_chat_id(u))

(***************************************************************************)
(* The polling loop (main.rs 131-167, 191-198).                            *)
(***************************************************************************)
\* Mutant of request_offset: the cursor itself sent as the offset.
request_offset_same(cursor) == cursor

\* .form(&[("offset", *last_confirmed + 1)]) (line 125).
request_offset(cursor) == cursor + 1

\* main 192-194 and get_available_updates: after the sleep, one POST of
\* getUpdates with offset = last_confirmed + 1.
GetAvailableUpdates ==
    /\ pc = "sleep"
    /\ tick_start' = last_confirmed
    /\ prev_offset' = offset
    /\ offset' = Some(request_offset(last_confirmed))
    /\ response' \in Responses(request_offset(last_confirmed))
    /\ updates' = <<>>
    /\ idx' = 1
    /\ pc' = "fetched"
    /\ UNCHANGED << words, last_confirmed, feed, result, processed, dispatched, last_reply >>
    /\ UNCHANGED text_vars

\* Mutant of ReturnErr: the failed request counted as confirmed.
ReturnErrSkips(e) ==
    /\ result' = e
    /\ pc' = "sleep"
    /\ last_confirmed' = last_confirmed + 1
    /\ UNCHANGED << words, response, updates, idx, feed, offset,
                    prev_offset, tick_start, processed, dispatched, last_reply >>
    /\ UNCHANGED text_vars

\* A tick that returns Err: main prints it and loops (line 196).
ReturnErr(e) ==
    /\ result' = e
    /\ pc' = "sleep"
    /\ UNCHANGED << words, last_confirmed, response, updates, idx, feed, offset,
                    prev_offset, tick_start, processed, dispatched, last_reply >>
    /\ UNCHANGED text_vars

\* Line 136: the ? on get_available_updates.
ReturnFetchError ==
    /\ pc = "fetched"
    /\ ~response.transport_ok
    /\ ReturnErr("fetch_error")

\* Lines 137-141: "ok" is false, or is missing.
ReturnNotOk ==
    /\ pc = "fetched"
    /\ response.transport_ok
    /\ response.ok # Some(TRUE)
    /\ ReturnErr(IF response.ok = None THEN "ok_missing" ELSE "ok_false")

\* Line 142: the ? on serde_json::from_value.
ReturnBadPayload ==
    /\ pc = "fetched"
    /\ response.transport_ok
    /\ response.ok = Some(TRUE)
    /\ ~deserializable(response.result)
    /\ ReturnErr("bad_payload")

\* Mutant of confirm: updates.first() in place of updates.last().
confirm_first(cursor, batch) ==
    IF batch # <<>> THEN batch[1].update_id ELSE cursor

\* Mutant of confirm: the assignment of line 146 left out.
confirm_never(cursor, batch) == cursor

\* The value of last_confirmed after lines 144-147.
confirm(cursor, batch) ==
    IF batch # <<>> THEN Last(batch).update_id ELSE cursor

\* Lines 142-147: the batch is deserialized and logged, and last_confirmed
\* is set to the update_id of its last update.
AcceptBatch ==
    /\ pc = "fetched"
    /\ response.transport_ok
    /\ response.ok = Some(TRUE)
    /\ deserializable(response.result)
    /\ updates' = deserialize(response.result)
    /\ last_confirmed' = confirm(last_confirmed, updates')
    /\ idx' = 1
    /\ pc' = "process"
    /\ UNCHANGED << words, response, feed, offset, prev_offset, tick_start,
                    result, processed, dispatched, last_reply >>
    /\ UNCHANGED text_vars

\* Lines 148-165, one turn of the for loop.  reply_to_message unwraps the
\* result of send: a transport error panics, and the panic ends the process.
ProcessUpdate ==
    /\ pc = "process"
    /\ idx <= Len(updates)
    /\ LET u == updates[idx]
       IN  /\ processed' = Append(processed, u.update_id)
           /\ IF ratio_panics(u)
              THEN /\ pc' = "panicked"
                   /\ UNCHANGED << idx, dispatched, last_reply >>
              ELSE IF exceeds_threshold(update_ratio(u, words))
              THEN IF reply_panics(u)
                   THEN /\ pc' = "panicked"
                        /\ UNCHANGED << idx, dispatched, last_reply >>
                   ELSE \E outcome \in ReplyOutcomes :
                           /\ dispatched' = Append(dispatched, reply_args(u))
                           /\ last_reply' = outcome
                           /\ IF outcome = "transport_error"
                              THEN pc' = "panicked" /\ idx' = idx
                              ELSE pc' = pc /\ idx' = idx + 1
              ELSE /\ idx' = idx + 1
                   /\ UNCHANGED << pc, dispatched, last_reply >>
    /\ UNCHANGED << words, last_confirmed, response, updates, feed, offset,
                    prev_offset, tick_start, result >>
    /\ UNCHANGED text_vars

\* The for loop left one turn early: the tick returns Ok(()) with the last
\* update of the batch not handled.
ReturnOkEarly ==
    /\ pc = "process"
    /\ idx >= Len(updates)
    /\ result' = "ok"
    /\ pc' = "sleep"
    /\ UNCHANGED << words, last_confirmed, response, updates, idx, feed, offset,
                    prev_offset, tick_start, processed, dispatched, last_reply >>
    /\ UNCHANGED text_vars

\* The test of the "ok" flag placed after the for loop: the tick handles the
\* batch and then returns the error.
ReturnOkFalseAfterLoop ==
    /\ pc = "process"
    /\ idx > Len(updates)
    /\ result' = "ok_false"
    /\ pc' = "sleep"
    /\ UNCHANGED << words, last_confirmed, response, updates, idx, feed, offset,
                    prev_offset, tick_start, processed, dispatched, last_reply >>
    /\ UNCHANGED text_vars

\* Line 166 and main 195: the tick returns Ok(()).
ReturnOk ==
    /\ pc = "process"
    /\ idx > Len(updates)
    /\ result' = "ok"
    /\ pc' = "sleep"
    /\ UNCHANGED << words, last_confirmed, response, updates, idx, feed, offset,
                    prev_offset, tick_start, processed, dispatched, last_reply >>
    /\ UNCHANGED text_vars

\* The update_id the server gives its next update: ascending, in steps of
\* one and of two (1, 3, 4, 6, ...).
next_update_id ==
    (IF feed = <<>> THEN 0 ELSE Last(feed).update_id) + 1 + (Len(feed) % 2)

\* The server receives another update.
FeedArrive ==
    /\ Len(feed) < MaxFeed
    /\ \E j \in JsonUpdates(next_update_id) : feed' = Append(feed, j)
    /\ UNCHANGED << words, last_confirmed, pc, response, updates, idx, offset,
                    prev_offset, tick_start, result, processed, dispatched, last_reply >>
    /\ UNCHANGED text_vars

LoopInit ==
    /\ last_confirmed = 0
    /\ pc = "sleep"
    /\ response = no_response
    /\ updates = <<>>
    /\ idx = 1
    /\ feed = <<>>
    /\ offset = None
    /\ prev_offset = None
    /\ tick_start = 0
    /\ result = "none"
    /\ processed = <<>>
    /\ dispatched = <<>>
    /\ last_reply = "none"

TextIdle ==
    /\ src = <<>>
    /\ tpc = "idle"
    /\ ratio = None
    /\ reply = None
    /\ fixed = None
    /\ twice = None

Init ==
    /\ words = build_words(LoopWordFile)
    /\ LoopInit
    /\ TextIdle

Next ==
    \/ GetAvailableUpdates
    \/ ReturnFetchError
    \/ ReturnNotOk
    \/ ReturnBadPayload
    \/ AcceptBatch
    \/ ProcessUpdate
    \/ ReturnOk
    \/ FeedArrive

Spec == Init /\ [][Next]_vars

(***************************************************************************)
(* The detector on its own: get_russians_ratio applied to every string of  *)
(* a small alphabet and to the feed's texts, under every word list, and    *)
(* the decision the loop takes for an update that carries the string.      *)
(***************************************************************************)
\* space, newline, z, q, /, U+044F (ya), U+0451 (io)
Alphabet == { 32, 10, 122, 113, 47, 1103, 1105 }

Strings(n) == UNION { [1..k -> Alphabet] : k \in 0..n }

\* The update of the feed that carries `text`.
update_with_text(text) ==
    deserialize_update(
        json_update(1, Some(json_message(Some(0 - 7), Some(21), Some(text)))))

\* What lines 152-163 do with the update: Some(arguments of the reply), or
\* None when the ratio does not exceed the threshold.
reply_decision(u, vocabulary) ==
    IF exceeds_threshold(update_ratio(u, vocabulary))
    THEN Some(reply_args(u))
    ELSE None

TextInit ==
    /\ words \in { build_words(f) : f \in WordFiles }
    /\ src \in Strings(MaxLen) \cup SampleTexts
    /\ tpc = "start"
    /\ ratio = None
    /\ reply = None
    /\ fixed = None
    /\ twice = None
    /\ LoopInit

Score ==
    /\ tpc = "start"
    /\ ratio' = Some(get_russians_ratio(src, words))
    /\ tpc' = "scored"
    /\ UNCHANGED << words, src, reply, fixed, twice >>
    /\ UNCHANGED loop_vars

Decide ==
    /\ tpc = "scored"
    /\ reply' = reply_decision(update_with_text(src), words)
    /\ tpc' = "decided"
    /\ UNCHANGED << words, src, ratio, fixed, twice >>
    /\ UNCHANGED loop_vars

\* fix_layout applied to the string.
FixLayout ==
    /\ fixed = None
    /\ fix_layout_assert
    /\ fixed' = Some(fix_layout(src))
    /\ UNCHANGED << words, src, tpc, ratio, reply, twice >>
    /\ UNCHANGED loop_vars

\* fix_layout applied to its own result.
FixLayoutAgain ==
    /\ IsSome(fixed)
    /\ twice = None
    /\ fix_layout_assert
    /\ twice' = Some(fix_layout(Unwrap(fixed)))
    /\ UNCHANGED << words, src, tpc, ratio, reply, fixed >>
    /\ UNCHANGED loop_vars

TextNext == Score \/ Decide \/ FixLayout \/ FixLayoutAgain

TextSpec == TextInit /\ [][TextNext]_vars

(***************************************************************************)
(* The claims.                                                             *)
(***************************************************************************)
ErrResults == { "fetch_error", "ok_false", "ok_missing", "bad_payload" }

UpdateIds(batch) == { batch[i].update_id : i \in 1..Len(batch) }

MaxUpdateId(batch) ==
    CHOOSE m \in UpdateIds(batch) : \A n \in UpdateIds(batch) : n <= m

\* The latest tick has returned Ok and the next has not started.
TickReturnedOk == pc = "sleep" /\ result = "ok"

\* C1: over any sequence of ticks (successful with and without updates,
\* failed) last_confirmed never decreases; when a tick that fetched a
\* non-empty batch has returned Ok it is the largest update_id of the batch,
\* and when a tick that fetched an empty batch has returned Ok it is what it
\* was when the tick started.
C1_CursorMonotoneAndExact ==
    /\ [][last_confirmed' >= last_confirmed]_vars
    /\ [](TickReturnedOk =>
            IF updates # <<>>
            THEN last_confirmed = MaxUpdateId(updates)
            ELSE last_confirmed = tick_start)

\* A second successful tick, with two updates in its batch, has moved the
\* cursor from a positive value to the largest update_id of the batch.
C1_Witness ==
    /\ TickReturnedOk
    /\ Len(updates) >= 2
    /\ tick_start > 0
    /\ last_confirmed = MaxUpdateId(updates)
    /\ last_confirmed > tick_start

\* The response makes the tick fail: a transport error, "ok" false or
\* missing, or a payload that is no batch.
FailingResponse(r) ==
    \/ ~r.transport_ok
    \/ r.ok # Some(TRUE)
    \/ ~deserializable(r.result)

\* C2: a tick whose fetch fails, whose "ok" is false or missing, or whose
\* payload does not deserialize returns an error to main with the cursor
\* as it was when the tick started; the loop goes on (it is back at its
\* sleep, not panicked), and the fetch of the next tick carries the same
\* offset as the fetch of the failed tick.
C2_FailedTickKeepsCursor ==
    /\ [][(pc = "fetched" /\ FailingResponse(response) /\ pc' # pc) =>
            /\ pc' = "sleep"
            /\ result' \in ErrResults
            /\ last_confirmed' = tick_start
            /\ processed' = processed]_vars
    /\ []((pc = "sleep" /\ result \in ErrResults) => last_confirmed = tick_start)
    /\ []((pc = "fetched" /\ result \in ErrResults) => offset = prev_offset)

\* After some progress a tick failed on its payload, and the next fetch has
\* been issued with the offset of the failed one.
C2_Witness ==
    /\ pc = "fetched"
    /\ result = "bad_payload"
    /\ last_confirmed > 0
    /\ offset = prev_offset
    /\ offset = Some(last_confirmed + 1)

FeedEvent(id) == CHOOSE j \in Range(feed) : j.update_id = id

\* The text of the update is present and score(lowercase(text)) > 0.4.
Eligible(j) ==
    /\ IsSome(j.message)
    /\ IsSome(Unwrap(j.message).text)
    /\ RatioGt(get_russians_ratio(to_lowercase(Unwrap(Unwrap(j.message).text)), words),
               << 2, 5 >>)

\* The positions in dispatched of the calls made for update `id`.
Calls(id) == { i \in 1..Len(dispatched) : dispatched[i].update_id = id }

\* C4 as claimed: a reply whose send failed leaves the loop running (the
\* rest of the batch is handled and later ticks occur).
C4_ReplyFailureContained ==
    last_reply \in { "rejected", "transport_error" } => pc # "panicked"

\* C5 as claimed, in the form a finite run refutes: replies are handed to
\* the dispatcher in ascending sequence id, and the loop never stops while
\* an update it has fetched, with text and a score above the threshold, has
\* not been handed to the dispatcher (a stopped loop hands over nothing
\* more, so such an update would never be delivered).
C5_InOrderAtLeastOnce ==
    /\ \A a, b \in 1..Len(dispatched) :
          a < b => dispatched[a].update_id < dispatched[b].update_id
    /\ pc = "panicked" =>
          \A j \in Range(feed) :
              (j.update_id <= last_confirmed /\ Eligible(j)) => Calls(j.update_id) # {}

\* C6: the updates the for loop has handled, in the order it handled them,
\* are exactly the first updates of the feed in feed order: none twice
\* (so none in two ticks), none skipped, ascending sequence id.
C6_EachUpdateOnceInOrder ==
    /\ Len(processed) <= Len(feed)
    /\ \A k \in 1..Len(processed) : processed[k] = feed[k].update_id
    /\ \A a, b \in 1..Len(processed) : a < b => processed[a] < processed[b]

\* Three updates were handled in two successful ticks.
C6_Witness ==
    /\ TickReturnedOk
    /\ tick_start > 0
    /\ updates # <<>>
    /\ Len(processed) = 3

LacksRequiredField(r) ==
    /\ IsSome(r.result)
    /\ \E i \in 1..Len(Unwrap(r.result)) :
          LET m == Unwrap(r.result)[i].message
          IN  IsSome(m) /\ (Unwrap(m).chat_id = None \/ Unwrap(m).message_id = None)

CyrillicTargets == { c \in Range(cyrillic_chars) : c \in 1024..1279 }

\* C9 as claimed: for a text with a character of the Cyrillic target
\* alphabet of the layout map, get_russians_ratio returns the sentinel
\* whatever the vocabulary, and the loop decides not to reply.
C9_TargetCharShortCircuits ==
    (tpc # "start" /\ \E i \in 1..Len(src) : src[i] \in CyrillicTargets) =>
        /\ ratio = Some(Sentinel)
        /\ tpc = "decided" => reply = None

\* C10: for the empty string and for a string of whitespace only,
\* get_russians_ratio returns 0 (not the sentinel) under every vocabulary,
\* and the loop decides not to reply.
C10_BlankScoresZero ==
    (tpc # "start" /\ \A i \in 1..Len(src) : src[i] \in White_Space) =>
        /\ IsSome(ratio)
        /\ RatioEq(Unwrap(ratio), Zero)
        /\ ~RatioEq(Unwrap(ratio), Sentinel)
        /\ tpc = "decided" => reply = None

\* A space and a newline were scored and decided under a vocabulary that
\* holds the empty word.
C10_Witness ==
    /\ tpc = "decided"
    /\ src = << 32, 10 >>
    /\ <<>> \in words
    /\ ratio = Some(Zero)
    /\ reply = None

----------------------------------------------------------------------------
\* Tokens of a text, described by their positions: a token starts at a
\* character that is not white space and follows white space or nothing, and
\* runs up to the next white space or the end.
TokenStarts(text) ==
    { i \in 1..Len(text) :
        /\ text[i] \notin White_Space
        /\ i = 1 \/ text[i - 1] \in White_Space }

TokenEnd(text, i) ==
    CHOOSE j \in i..Len(text) :
        /\ \A k \in i..j : text[k] \notin White_Space
        /\ j = Len(text) \/ text[j + 1] \in White_Space

TokenAt(text, i) == SubSeq(text, i, TokenEnd(text, i))

MatchedStarts(text, vocabulary) ==
    { i \in TokenStarts(text) : normalize(TokenAt(text, i)) \in vocabulary }

\* The thirty-two letters U+0430..U+044F of the short-circuit test.
ShortCircuits(text) == \E i \in 1..Len(text) : text[i] \in 1072..1103

\* The vocabulary { "hello", "world" }.
HelloWorld ==
    { << 104, 101, 108, 108, 111 >>, << 119, 111, 114, 108, 100 >> }

\* The general part of C11: a scored text without a short-circuit character
\* and with at least one token has the ratio matched / total, with
\* 0 <= matched <= total, and the sentinel is returned only for a text with a
\* short-circuit character.
RatioIsMatchedOverTotal ==
    tpc # "start" =>
        /\ IsSome(ratio)
        /\ (~ShortCircuits(src) /\ TokenStarts(src) # {}) =>
               LET matched == Cardinality(MatchedStarts(src, words))
                   total == Cardinality(TokenStarts(src))
               IN  /\ ratio = Some(<< matched, total >>)
                   /\ 0 <= matched /\ matched <= total
                   /\ ~RatioGt(Zero, Unwrap(ratio))
                   /\ ~RatioGt(Unwrap(ratio), << 1, 1 >>)
        /\ RatioEq(Unwrap(ratio), Sentinel) => ShortCircuits(src)

----------------------------------------------------------------------------
SourceAlphabet == Range(latin_chars)

TargetAlphabet == Range(cyrillic_chars)

\* C12: fix_layout is defined on every string and works character by
\* character: the output is as long as the input, a character that stands at
\* place k of the Latin table is replaced, at its position, by the character
\* at place k of the Cyrillic table, and a character outside the Latin table
\* stays as it is at its position.
C12_FixLayoutPerCharacter ==
    /\ fix_layout_assert
    /\ fixed = None => ENABLED FixLayout
    /\ IsSome(fixed) =>
           LET out == Unwrap(fixed)
           IN  /\ Len(out) = Len(src)
               /\ \A i \in 1..Len(src) :
                      /\ \A k \in 1..Len(latin_chars) :
                             src[i] = latin_chars[k] => out[i] = cyrillic_chars[k]
                      /\ src[i] \notin SourceAlphabet => out[i] = src[i]

\* "Z z" was remapped: the capital letter and the space are kept, the key z
\* became U+044F.
C12_Witness ==
    /\ src = TextWrongLayout
    /\ fixed = Some(<< 90, 32, 1103 >>)

\* C13: the second application of fix_layout changes the result of the first
\* only at positions whose character belongs to both tables, and changes
\* nothing at a position whose character is outside the Latin table.
C13_SecondApplication ==
    IsSome(twice) =>
        LET once == Unwrap(fixed)
            again == Unwrap(twice)
        IN  /\ Len(again) = Len(once)
            /\ \A i \in 1..Len(once) :
                   /\ again[i] # once[i] =>
                          once[i] \in SourceAlphabet \cap TargetAlphabet
                   /\ once[i] \notin SourceAlphabet => again[i] = once[i]

\* ". /" was remapped twice: the first result is U+044E, space, "."; the
\* second application keeps the letter and turns the "." into U+044E.
C13_Witness ==
    /\ src = TextDotSlash
    /\ fixed = Some(<< 1102, 32, 46 >>)
    /\ twice = Some(<< 1102, 32, 1102 >>)

\* The tables of fix_layout: same length, no key twice in the Latin table,
\* an entry of the map for every key, no two keys with the same image.
LayoutTablesInjective ==
    /\ Len(latin_chars) = Len(cyrillic_chars)
    /\ \A i, j \in 1..Len(latin_chars) :
           i # j => latin_chars[i] # latin_chars[j]
    /\ DOMAIN chars_map = SourceAlphabet
    /\ \A i \in 1..Len(latin_chars) :
           chars_map[latin_chars[i]] = cyrillic_chars[i]
    /\ \A a, b \in SourceAlphabet : a # b => chars_map[a] # chars_map[b]

\* C14: the two tables of fix_layout have the same length, no key occurs
\* twice in the Latin table, the map has an entry for every key of the Latin
\* table and no two keys have the same image; the assertion of line 14 holds
\* at every call, so no tick of the loop is aborted by it.
C14_LayoutMapInjective ==
    /\ LayoutTablesInjective
    /\ fix_layout_assert
    /\ pc = "panicked" =>
           /\ ~ratio_panics(updates[idx])
           /\ last_reply = "transport_error"

\* A tick has called fix_layout for an event, the assertion held and the
\* reply was handed over; the loop goes on with the batch.
C14_Witness ==
    /\ pc = "process"
    /\ idx > 1
    /\ dispatched # <<>>
    /\ dispatched[Len(dispatched)].update_id = updates[idx - 1].update_id
    /\ last_reply = "sent"

----------------------------------------------------------------------------
\* A step that issues a fetch, and a step that handles an event of the batch.
FetchStep == pc = "sleep" /\ pc' = "fetched"

HandlingStep == processed' # processed \/ dispatched' # dispatched

\* C15: the loop is sequential.  A tick leaves the sleep only by issuing a
\* fetch, with offset = cursor + 1 for the cursor at the start of the tick
\* (1 for the first fetch, the cursor being 0 at the start) and only when the
\* batch of the tick before has been handled to its end; no further request
\* is made before the tick has returned; events are handled only after the
\* fetch has returned a batch, and they are events of that batch.
C15_StrictlySequential ==
    /\ [][ /\ (pc = "sleep" /\ pc' # "sleep") =>
                  /\ FetchStep
                  /\ offset' = Some(last_confirmed + 1)
                  /\ tick_start' = last_confirmed
                  /\ idx > Len(updates)
                  /\ ~HandlingStep
           /\ pc # "sleep" =>
                  /\ offset' = offset
                  /\ response' = response
                  /\ tick_start' = tick_start
           /\ pc = "fetched" => pc' \in { "fetched", "process", "sleep" }
           /\ pc = "process" => pc' \in { "process", "panicked", "sleep" }
           /\ (pc = "process" /\ pc' = "sleep") => idx > Len(updates)
           /\ HandlingStep =>
                  /\ pc = "process"
                  /\ response.transport_ok
                  /\ response.ok = Some(TRUE)
                  /\ updates = deserialize(response.result)
                  /\ idx <= Len(updates)
                  /\ processed' = Append(processed, updates[idx].update_id)
         ]_vars
    /\ [](offset = None => (last_confirmed = 0 /\ pc = "sleep"))
    /\ []((prev_offset = None /\ IsSome(offset)) => offset = Some(1))
    /\ [](pc # "sleep" => offset = Some(tick_start + 1))

\* A second tick, fetched with the offset after a cursor above 0, is in the
\* middle of a batch of two events.
C15_Witness ==
    /\ pc = "process"
    /\ tick_start > 0
    /\ offset = Some(tick_start + 1)
    /\ Len(updates) = 2
    /\ idx = 2
    /\ processed # <<>>
    /\ Last(processed) = updates[1].update_id

\* C17: a tick returns an error only from the point right after its fetch:
\* no event of the batch has been handled, no reply dispatched and the
\* cursor not moved in that tick; a tick that has started to handle its
\* batch returns Ok or not at all.  So no event is handled or replied to in
\* a tick that fails, and the batch fetched again after a failed tick holds
\* no event that the failed tick replied to.
C17_ErrorExitsBeforeProcessing ==
    /\ [][ /\ (pc # "sleep" /\ pc' = "sleep" /\ result' \in ErrResults) =>
                  /\ pc = "fetched"
                  /\ FailingResponse(response)
                  /\ updates = <<>>
                  /\ ~HandlingStep
                  /\ last_confirmed' = tick_start
           /\ (pc = "process" /\ pc' = "sleep") => result' = "ok"
           /\ pc' = "fetched" => (pc \in { "sleep", "fetched" } /\ ~HandlingStep)
           /\ HandlingStep => (pc = "process" /\ pc' # "fetched")
         ]_vars
    /\ [](pc = "fetched" => (updates = <<>> /\ last_confirmed = tick_start))
    /\ [](\A a, b \in 1..Len(dispatched) :
             a < b => dispatched[a].update_id < dispatched[b].update_id)
    /\ []((pc = "fetched" /\ IsSome(response.result)) =>
             \A i \in 1..Len(Unwrap(response.result)) :
                 \A a \in 1..Len(dispatched) :
                     dispatched[a].update_id < Unwrap(response.result)[i].update_id)

\* A tick has failed on its payload after an earlier tick had replied to an
\* event, and an event is still waiting in the feed.
C17_Witness ==
    /\ pc = "sleep"
    /\ result = "bad_payload"
    /\ dispatched # <<>>
    /\ last_confirmed = tick_start
    /\ pending(last_confirmed + 1) # <<>>

----------------------------------------------------------------------------
\* The punctuation set by code points: the 32 punctuation marks of ASCII.
AsciiPunctuation == (33..47) \cup (58..64) \cup (91..96) \cup (123..126)

NotAsciiPunctuation(c) == c \notin AsciiPunctuation

\* A token remapped through the tables, place by place.
Remapped(t) ==
    [i \in 1..Len(t) |->
        IF \E k \in 1..Len(latin_chars) : latin_chars[k] = t[i]
        THEN cyrillic_chars[CHOOSE k \in 1..Len(latin_chars) : latin_chars[k] = t[i]]
        ELSE t[i]]

\* The word looked up for a token: remapped first, stripped second.
LookedUp(t) == SelectSeq(Remapped(t), NotAsciiPunctuation)

\* C16: a token counts as matched exactly when the token remapped by
\* fix_layout and then stripped of the punctuation set is in the vocabulary.
\* The stripping works on the remapped token: a punctuation key that remaps
\* to a Cyrillic letter leaves that letter in the looked-up word, and a
\* character that remaps to ".", "," or "?" leaves nothing.
C16_StripAfterRemap ==
    (tpc # "start" /\ ~ShortCircuits(src) /\ TokenStarts(src) # {}) =>
        /\ ratio =
               Some(<< Cardinality({ i \in TokenStarts(src) :
                                      LookedUp(TokenAt(src, i)) \in words }),
                       Cardinality(TokenStarts(src)) >>)
        /\ \A i \in TokenStarts(src) :
               LET t == TokenAt(src, i)
               IN  /\ normalize(t) = LookedUp(t)
                   /\ \A k \in 1..Len(t) :
                          /\ (t[k] \in AsciiPunctuation \cap SourceAlphabet
                                 /\ chars_map[t[k]] \in 1024..1279) =>
                                chars_map[t[k]] \in Range(normalize(t))
                          /\ (t[k] \in SourceAlphabet
                                 /\ chars_map[t[k]] \in { 46, 44, 63 }) =>
                                Len(normalize(t)) < Len(t)

\* ". /" was scored under a vocabulary that holds the empty word: the token
\* "." is looked up as U+044E and is not matched, the token "/" is looked up
\* as the empty word and is matched.
C16_Witness ==
    /\ tpc = "scored"
    /\ src = TextDotSlash
    /\ <<>> \in words
    /\ << 1102 >> \notin words
    /\ LookedUp(<< 46 >>) = << 1102 >>
    /\ LookedUp(<< 47 >>) = <<>>
    /\ ratio = Some(<< 1, 2 >>)

\* Every token of the text normalizes to the empty string, and there is one.
OnlyEmptyTokens(text) ==
    /\ ~ShortCircuits(text)
    /\ TokenStarts(text) # {}
    /\ \A i \in TokenStarts(text) : normalize(TokenAt(text, i)) = <<>>

\* C18: the vocabulary built by build_words does not hold the empty string,
\* so a token that normalizes to the empty string is not matched, and a
\* message made only of such tokens scores 0 and is not dispatched.
C18_EmptyWordNeverMatches ==
    (tpc = "decided" /\ OnlyEmptyTokens(src)) =>
        /\ <<>> \notin words
        /\ ratio = Some(<< 0, Cardinality(TokenStarts(src)) >>)
        /\ reply = None

====
